---- MODULE Spec2Model ----
(***************************************************************************)
(* Person enrichment service: the persons table, the three name-based     *)
(* lookup clients (agify, genderize, nationalize) and the two EnrichPerson *)
(* implementations (personServiceImpl.EnrichPerson and                     *)
(* PersonHandler.EnrichPerson) that read a row, fill its absent           *)
(* demographic fields from the lookups and write it back.                  *)
(*                                                                         *)
(* Encoding.  A Go nil pointer / SQL NULL is NilInt for *int and *float64  *)
(* and NilStr for *string; the empty string "" is a present value.         *)
(* A float64 probability is an integer number of 1/One units (One = 1.0),  *)
(* so that 1/10000 (the DECIMAL(5,4) column step) is 10 units.             *)
(* time.Now() is the variable now; it advances with every store write.     *)
(*                                                                         *)
(* Specifications.  Spec: one Enrich call at a time with Create and Delete.*)
(* LookupSpec: the lookup clients alone.  ConcSpec: concurrent Enrich      *)
(* calls, PUT/PATCH and cancellation.  The later sections add their own.   *)
(***************************************************************************)
EXTENDS Integers, Sequences, FiniteSets, TLC

VARIABLES persons, now, call, ncalls, fullAt, probe, req, reply, server

vars == <<persons, now, call, ncalls, fullAt, probe, req, reply, server>>

----------------------------------------------------------------------------
(* Bounds of the model *)

MaxTime == 3
MaxCalls == 2
MaxCountries == 3
MaxCount == 2001

(* Program constants *)

One == 100000
CountDivisor == 1000
DecimalStep == 10

NilInt == -1
NilStr == "<nil>"
NilID == 0
ZeroTime == -1

IDs == {1, 2}
NewUUIDs == {1}
Procs == {"p1"}
Impls == {"service", "handler"}
Fields == {"age", "gender", "nationality"}

Names == {"", "Maria"}
Surnames == {"Diaz"}

Min(a, b) == IF a < b THEN a ELSE b

----------------------------------------------------------------------------
(* entities.Person *)

NewPerson(id, name, surname, patronymic, age, gender, gp, nat, np) ==
  [id |-> id, name |-> name, surname |-> surname, patronymic |-> patronymic,
   age |-> age, gender |-> gender, gender_probability |-> gp,
   nationality |-> nat, nationality_probability |-> np,
   created_at |-> ZeroTime, updated_at |-> ZeroTime]

(* Request bodies bound into entities.Person by Create: every presence    *)
(* pattern of age, gender and nationality, a gender_probability without   *)
(* gender, and an empty name (which only the service's CreatePerson lets  *)
(* through).  The bodies carry no id: CreatePerson assigns uuid.New().    *)
Bodies ==
  { NewPerson(i, "Maria", s, NilStr, a, g[1], g[2], nat[1], nat[2]) :
      i \in {NilID}, s \in Surnames, a \in {NilInt, 25},
      g \in {<<NilStr, NilInt>>, <<"male", 50000>>, <<NilStr, 50000>>},
      nat \in {<<NilStr, NilInt>>, <<"US", 88000>>} }
  \cup { NewPerson(NilID, "", s, NilStr, NilInt, NilStr, NilInt, NilStr, NilInt) :
           s \in Surnames }

----------------------------------------------------------------------------
(* HTTP exchanges with the lookup services.  kind is what httpClient.Do and *)
(* the decoder make of the exchange: "transport" (Do returns an error),     *)
(* "status" (StatusCode # 200), "decode" (the JSON decoder fails), "ok".    *)

FailureKinds == {"transport", "status", "decode"}

HttpFailures == { [kind |-> k, body |-> <<>>] : k \in FailureKinds }

HttpOk(body) == [kind |-> "ok", body |-> body]

(* The error a client returns for a failed exchange. *)
HttpErr(resp) ==
  CASE resp.kind = "transport" -> "failed to execute request"
    [] resp.kind = "status"    -> "ErrNon200Response"
    [] resp.kind = "decode"    -> "failed to decode API response"
    [] OTHER                   -> "nil"

(* GetAgeByName without the cap of the confidence at 1.0 *)
GetAgeByName_NoCap(name, resp) ==
  IF name = ""
    THEN [age |-> 0, probability |-> 0, err |-> "ErrEmptyName", sent |-> FALSE]
  ELSE IF resp.kind # "ok"
    THEN [age |-> 0, probability |-> 0, err |-> HttpErr(resp), sent |-> TRUE]
  ELSE [age |-> resp.body.age,
        probability |-> (resp.body.count * One) \div CountDivisor,
        err |-> "nil", sent |-> TRUE]

(* age.APIClient.GetAgeByName *)
GetAgeByName(name, resp) ==
  IF name = ""
    THEN [age |-> 0, probability |-> 0, err |-> "ErrEmptyName", sent |-> FALSE]
  ELSE IF resp.kind # "ok"
    THEN [age |-> 0, probability |-> 0, err |-> HttpErr(resp), sent |-> TRUE]
  ELSE [age |-> resp.body.age,
        probability |-> Min((resp.body.count * One) \div CountDivisor, One),
        err |-> "nil", sent |-> TRUE]

(* GetGenderByName without the check of the name *)
GetGenderByName_NoGuard(name, resp) ==
  IF resp.kind # "ok"
    THEN [gender |-> "", probability |-> 0, err |-> HttpErr(resp), sent |-> TRUE]
  ELSE [gender |-> resp.body.gender, probability |-> resp.body.probability,
        err |-> "nil", sent |-> TRUE]

(* gender.APIClient.GetGenderByName *)
GetGenderByName(name, resp) ==
  IF name = ""
    THEN [gender |-> "", probability |-> 0, err |-> "ErrEmptyName", sent |-> FALSE]
  ELSE IF resp.kind # "ok"
    THEN [gender |-> "", probability |-> 0, err |-> HttpErr(resp), sent |-> TRUE]
  ELSE [gender |-> resp.body.gender, probability |-> resp.body.probability,
        err |-> "nil", sent |-> TRUE]

(* No loop: the first candidate is returned *)
MostProbable_First(countries, i, best) == best

(* The loop with >= for >: the last of the most probable candidates wins *)
RECURSIVE MostProbable_LastWins(_, _, _)
MostProbable_LastWins(countries, i, best) ==
  IF i > Len(countries) THEN best
  ELSE MostProbable_LastWins(countries, i + 1,
         IF countries[i].probability >= best.probability THEN countries[i] ELSE best)

(* The loop of GetNationalityByName over Countries[i..]: a candidate       *)
(* replaces the current best only when its probability is greater.         *)
RECURSIVE MostProbable(_, _, _)
MostProbable(countries, i, best) ==
  IF i > Len(countries) THEN best
  ELSE MostProbable(countries, i + 1,
         IF countries[i].probability > best.probability THEN countries[i] ELSE best)

(* GetNationalityByName reporting an empty country list as an error *)
GetNationalityByName_EmptyIsError(name, resp) ==
  IF name = ""
    THEN [nationality |-> "", probability |-> 0, err |-> "ErrEmptyName", sent |-> FALSE]
  ELSE IF resp.kind # "ok"
    THEN [nationality |-> "", probability |-> 0, err |-> HttpErr(resp), sent |-> TRUE]
  ELSE IF Len(resp.body) = 0
    THEN [nationality |-> "", probability |-> 0, err |-> "no countries", sent |-> TRUE]
  ELSE LET mostProbableCountry == MostProbable(resp.body, 1, resp.body[1])
       IN [nationality |-> mostProbableCountry.country_id,
           probability |-> mostProbableCountry.probability,
           err |-> "nil", sent |-> TRUE]

(* nationality.APIClient.GetNationalityByName *)
GetNationalityByName(name, resp) ==
  IF name = ""
    THEN [nationality |-> "", probability |-> 0, err |-> "ErrEmptyName", sent |-> FALSE]
  ELSE IF resp.kind # "ok"
    THEN [nationality |-> "", probability |-> 0, err |-> HttpErr(resp), sent |-> TRUE]
  ELSE IF Len(resp.body) = 0
    THEN [nationality |-> "", probability |-> 0, err |-> "nil", sent |-> TRUE]
  ELSE LET mostProbableCountry == MostProbable(resp.body, 1, resp.body[1])
       IN [nationality |-> mostProbableCountry.country_id,
           probability |-> mostProbableCountry.probability,
           err |-> "nil", sent |-> TRUE]

----------------------------------------------------------------------------
(* The persons table (migrations/000000_init.up.sql) and its repository.   *)
(* persons is a function from the ids of the rows to the rows.             *)

NoPerson == NewPerson(NilID, "", "", NilStr, NilInt, NilStr, NilInt, NilStr, NilInt)

(* A float64 written to a DECIMAL(5,4) column is rounded to 4 decimals. *)
ToDecimal(p) ==
  IF p = NilInt THEN NilInt
  ELSE ((p + (DecimalStep \div 2)) \div DecimalStep) * DecimalStep

(* GetByID answering a missing row with a zero-valued struct and no error *)
GetByID_NoRowsIsZero(rows, personID, dbfail) ==
  IF dbfail THEN [person |-> NoPerson, err |-> "db"]
  ELSE IF personID \notin DOMAIN rows
    THEN [person |-> [NoPerson EXCEPT !.id = personID], err |-> "nil"]
  ELSE [person |-> rows[personID], err |-> "nil"]

(* Repository.GetByID; dbfail is a failure of the query other than no rows. *)
GetByID(rows, personID, dbfail) ==
  IF dbfail THEN [person |-> NoPerson, err |-> "db"]
  ELSE IF personID \notin DOMAIN rows
    THEN [person |-> NoPerson, err |-> "ErrPersonNotFound"]
  ELSE [person |-> rows[personID], err |-> "nil"]

(* Repository.CreatePerson: the caller's struct after the call, the error  *)
(* and the table after the call.  fresh is the value of uuid.New().        *)
RepoCreatePerson(rows, person, fresh, t, dbfail) ==
  LET id == IF person.id = NilID THEN fresh ELSE person.id
      p  == [person EXCEPT !.id = id, !.created_at = t, !.updated_at = t]
      row == [p EXCEPT !.gender_probability = ToDecimal(@),
                       !.nationality_probability = ToDecimal(@)]
  IN IF dbfail THEN [person |-> p, err |-> "db", rows |-> rows]
     ELSE IF id \in DOMAIN rows
       THEN [person |-> p, err |-> "ErrPersonAlreadyExists", rows |-> rows]
     ELSE [person |-> p, err |-> "nil", rows |-> (id :> row) @@ rows]

(* UpdatePerson as an upsert: a row that is missing is inserted *)
RepoUpdatePerson_Upsert(rows, person, t, dbfail) ==
  LET p == [person EXCEPT !.updated_at = t]
      row == [p EXCEPT !.gender_probability = ToDecimal(@),
                       !.nationality_probability = ToDecimal(@)]
  IN IF dbfail THEN [person |-> p, err |-> "db", rows |-> rows]
     ELSE [person |-> p, err |-> "nil",
           rows |-> (p.id :> row) @@ [i \in DOMAIN rows \ {p.id} |-> rows[i]]]

(* UpdatePerson writing created_at from the struct as well *)
RepoUpdatePerson_SetsCreatedAt(rows, person, t, dbfail) ==
  LET p == [person EXCEPT !.updated_at = t]
  IN IF dbfail THEN [person |-> p, err |-> "db", rows |-> rows]
     ELSE IF p.id \notin DOMAIN rows
       THEN [person |-> p, err |-> "ErrPersonNotFound", rows |-> rows]
     ELSE [person |-> p, err |-> "nil",
           rows |-> [rows EXCEPT ![p.id] =
                      [p EXCEPT !.gender_probability = ToDecimal(@),
                                !.nationality_probability = ToDecimal(@)]]]

(* Repository.UpdatePerson with the BEFORE UPDATE trigger: every column but *)
(* id and created_at is overwritten from the struct, updated_at is the     *)
(* time of the write; no matching row is ErrPersonNotFound.                *)
RepoUpdatePerson(rows, person, t, dbfail) ==
  LET p == [person EXCEPT !.updated_at = t]
  IN IF dbfail THEN [person |-> p, err |-> "db", rows |-> rows]
     ELSE IF p.id \notin DOMAIN rows
       THEN [person |-> p, err |-> "ErrPersonNotFound", rows |-> rows]
     ELSE [person |-> p, err |-> "nil",
           rows |-> [rows EXCEPT ![p.id] =
                      [@ EXCEPT !.name = p.name, !.surname = p.surname,
                                !.patronymic = p.patronymic, !.age = p.age,
                                !.gender = p.gender,
                                !.gender_probability = ToDecimal(p.gender_probability),
                                !.nationality = p.nationality,
                                !.nationality_probability =
                                    ToDecimal(p.nationality_probability),
                                !.updated_at = t]]]

(* Repository.ExistsByID *)
ExistsByID(rows, personID, dbfail) ==
  IF dbfail THEN [exists |-> FALSE, err |-> "db"]
  ELSE [exists |-> personID \in DOMAIN rows, err |-> "nil"]

(* Repository.DeletePerson *)
RepoDeletePerson(rows, personID, dbfail) ==
  IF dbfail THEN [err |-> "db", rows |-> rows]
  ELSE IF personID \notin DOMAIN rows
    THEN [err |-> "ErrPersonNotFound", rows |-> rows]
  ELSE [err |-> "nil", rows |-> [i \in DOMAIN rows \ {personID} |-> rows[i]]]

----------------------------------------------------------------------------
(* One EnrichPerson call in progress per process.                          *)
(*   pc      where the call stands: idle, age, gender, nationality,        *)
(*           update, done                                                  *)
(*   person  the struct GetByID returned, mutated in place                 *)
(*   loaded  person as GetByID returned it                                 *)
(*   looked  the lookups invoked, ok the lookups that returned no error    *)
(*   reads, writes  calls of GetByID and UpdatePerson                      *)
(*   arg     the struct as passed to UpdatePerson, before its row before   *)
(*           that write and stored the row after it (NoPerson if none)     *)
(*   got     what each invoked lookup returned, and the body the service   *)
(*           answered with (<<>> when the exchange failed)                 *)
(*   missing whether the id had no row when GetByID ran                    *)
(*   lerr, uerr  the errors of GetByID and of UpdatePerson                 *)
(*   err, ret, status  what the call returned; status is the HTTP status   *)
(*           of the handler                                                *)
(*   nlook, nreq  per capability, the invocations of its client and the    *)
(*           HTTP requests the client issued                               *)
(*   ctx     the caller's context: live or cancelled                       *)
(*   prev    the previous call of the process, if it wrote: the time of    *)
(*           its write, the lookups that failed and those that succeeded   *)

NoAnswers ==
  [age |-> [v |-> NilInt, p |-> NilInt, err |-> "none", body |-> <<>>],
   gender |-> [v |-> NilStr, p |-> NilInt, err |-> "none", body |-> <<>>],
   nationality |-> [v |-> NilStr, p |-> NilInt, err |-> "none", body |-> <<>>]]

NoneYet == [age |-> 0, gender |-> 0, nationality |-> 0]

NoPrev == [at |-> NilInt, failed |-> {}, filled |-> {}]

IdleCall ==
  [pc |-> "idle", impl |-> "service", id |-> NilID, person |-> NoPerson,
   loaded |-> NoPerson, looked |-> {}, keys |-> {}, ok |-> {}, reads |-> 0,
   writes |-> 0,
   arg |-> NoPerson, before |-> NoPerson, stored |-> NoPerson,
   got |-> NoAnswers, missing |-> FALSE, lerr |-> "nil", uerr |-> "nil",
   err |-> "nil", ret |-> NoPerson, status |-> 0,
   nlook |-> NoneYet, nreq |-> NoneYet, ctx |-> "live", prev |-> NoPrev]

(* err.Error(), word by word.  "db" is a failure of the connection,        *)
(* "pg: not found" a failure of the query other than pgx.ErrNoRows whose   *)
(* message, which the server or the driver words, has the words "not       *)
(* found" in it; GetByID wraps both with "failed to get person: %w".       *)
ErrorText(err) ==
  CASE err = "ErrPersonNotFound" -> <<"person", "not", "found", ":", "id">>
    [] err = "ErrPersonAlreadyExists" -> <<"person", "already", "exists">>
    [] err = "db" -> <<"failed", "to", "get", "person", ":", "connection", "refused">>
    [] err = "pg: not found" ->
         <<"failed", "to", "get", "person", ":", "ERROR", ":", "object", "not", "found">>
    [] err = "context canceled" ->
         <<"failed", "to", "get", "person", ":", "context", "canceled">>
    [] OTHER -> <<err>>

(* strings.Contains *)
Contains(text, words) ==
  \E i \in 1..(Len(text) - Len(words) + 1) :
    SubSeq(text, i, i + Len(words) - 1) = words

(* strings.Contains(err.Error(), "not found") in the handler *)
SaysNotFound(err) == Contains(ErrorText(err), <<"not", "found">>)


(* The exchanges the lookup services answer an Enrich call with. *)
AgeExchanges == HttpFailures \cup { HttpOk([age |-> 28, count |-> 2000]) }

GenderExchanges ==
  HttpFailures \cup { HttpOk([gender |-> "female", probability |-> 98000]),
                      HttpOk([gender |-> "female", probability |-> 98765]),
                      HttpOk([gender |-> "", probability |-> 0]) }

NationalityExchanges ==
  HttpFailures \cup { HttpOk(<<>>),
                      HttpOk(<<[country_id |-> "ES", probability |-> 40000],
                               [country_id |-> "IT", probability |-> 70000]>>) }

(* What the call keeps of a lookup's error: nil, the empty-name error, or  *)
(* a failed exchange.                                                      *)
Outcome(err) ==
  IF err = "nil" THEN "nil"
  ELSE IF err = "ErrEmptyName" THEN "ErrEmptyName" ELSE "failed"

(* A cancelled context that the store and the clients do not honour *)
Cancelled_Never(c) == FALSE

(* A context that is cancelled: pgx returns ctx.Err() for QueryRow and     *)
(* Exec, and httpClient.Do fails for a request made with it.               *)
Cancelled(c) == c.ctx = "cancelled"

CtxExchanges(c, exchanges) ==
  IF Cancelled(c) THEN { [kind |-> "transport", body |-> <<>>] } ELSE exchanges

(* A failed lookup invoked a second time *)
Attempts_RetryOnError(r) == IF r.err = "nil" THEN 1 ELSE 2

(* The invocations of a client for one field: the call statement is not    *)
(* in a loop.                                                              *)
Attempts(r) == 1

(* The HTTP requests of one invocation: one httpClient.Do, none when the   *)
(* client returned before it.                                              *)
Requests(r) == IF r.sent THEN 1 ELSE 0

(* The age lookup made whether or not the age is known *)
AgeAbsent_Always(person) == TRUE

(* The gender lookup made again for a gender stored as "" *)
GenderAbsent_OrEmpty(person) == person.gender = NilStr \/ person.gender = ""

(* The conditions under which each lookup is made: `if person.Age == nil`. *)
AgeAbsent(person) == person.age = NilInt
GenderAbsent(person) == person.gender = NilStr
NationalityAbsent(person) == person.nationality = NilStr

(* The nationality merged without looking at the error *)
SetNationality_IgnoreErr(person, r) ==
  [person EXCEPT !.nationality = r.nationality,
                 !.nationality_probability = r.probability]

(* The gender merged without looking at the error *)
SetGender_IgnoreErr(person, r) ==
  [person EXCEPT !.gender = r.gender, !.gender_probability = r.probability]

(* The merge of a lookup's return into the struct: `if err == nil`. *)
SetAge(person, r) ==
  IF r.err = "nil" THEN [person EXCEPT !.age = r.age] ELSE person

SetGender(person, r) ==
  IF r.err = "nil"
    THEN [person EXCEPT !.gender = r.gender, !.gender_probability = r.probability]
    ELSE person

SetNationality(person, r) ==
  IF r.err = "nil"
    THEN [person EXCEPT !.nationality = r.nationality,
                        !.nationality_probability = r.probability]
    ELSE person

(* What the caller gets for a failed GetByID / UpdatePerson: the service   *)
(* wraps the error with %w, the handler answers 404 or 500.                *)
LoadStatus(impl, err) ==
  IF impl = "handler" THEN (IF SaysNotFound(err) THEN 404 ELSE 500) ELSE 0

SaveStatus(impl, err) ==
  IF impl = "handler" THEN (IF err = "nil" THEN 200 ELSE 500) ELSE 0

(* The lookups keyed by the surname *)
LookupKey_Surname(person) == person.surname

(* `GetAgeByName(ctx, person.Name)`, and the same for the other two *)
LookupKey(person) == person.name

(* The failures of the SELECT of GetByID other than no rows, and none. *)
StoreFailures == {"db", "pg: not found"}

(* Repository.GetByID with the failure of its query named. *)
GetByIDFailing(rows, personID, failure) ==
  IF failure = "nil" THEN GetByID(rows, personID, FALSE)
  ELSE [person |-> NoPerson, err |-> failure]

(* EnrichPerson, up to and including GetByID, found being what GetByID     *)
(* returns on a live context.                                              *)
EnrichLoadFrom(p, impl, id, found) ==
  /\ call[p].pc = "idle"
  /\ ncalls < MaxCalls
  /\ LET r == IF Cancelled(call[p])
                THEN [person |-> NoPerson, err |-> "context canceled"]
                ELSE found
         c == [IdleCall EXCEPT !.impl = impl, !.id = id, !.reads = 1,
                               !.missing = (id \notin DOMAIN persons),
                               !.lerr = r.err, !.ctx = call[p].ctx,
                               !.prev = call[p].prev]
     IN call' = [call EXCEPT ![p] =
                   IF r.err # "nil"
                     THEN [c EXCEPT !.pc = "done", !.err = r.err,
                                    !.status = LoadStatus(impl, r.err)]
                     ELSE [c EXCEPT !.pc = "age", !.person = r.person,
                                    !.loaded = r.person]]
  /\ ncalls' = ncalls + 1
  /\ UNCHANGED <<persons, now, fullAt, probe, req, reply, server>>

EnrichLoad(p, impl, id, dbfail) ==
  EnrichLoadFrom(p, impl, id, GetByID(persons, id, dbfail))

(* `if person.Age == nil { GetAgeByName ... }` *)
EnrichAgeOn(p, exchanges) ==
  /\ call[p].pc = "age"
  /\ \E resp \in CtxExchanges(call[p], exchanges) :
       LET c == call[p]
           r == GetAgeByName(LookupKey(c.person), resp)
       IN call' = [call EXCEPT ![p] =
            IF AgeAbsent(c.person)
              THEN [c EXCEPT !.pc = "gender", !.person = SetAge(c.person, r),
                             !.looked = @ \cup {"age"},
                             !.keys = @ \cup {LookupKey(c.person)},
                             !.nlook.age = @ + Attempts(r),
                             !.nreq.age = @ + Attempts(r) * Requests(r),
                             !.ok = IF r.err = "nil" THEN @ \cup {"age"} ELSE @,
                             !.got.age = [v |-> r.age, p |-> r.probability, err |-> Outcome(r.err),
                                 body |-> resp.body]]
              ELSE [c EXCEPT !.pc = "gender"]]
  /\ UNCHANGED <<persons, now, ncalls, fullAt, probe, req, reply, server>>

EnrichAge(p) == EnrichAgeOn(p, AgeExchanges)

(* `if person.Gender == nil { GetGenderByName ... }` *)
EnrichGenderOn(p, exchanges) ==
  /\ call[p].pc = "gender"
  /\ \E resp \in CtxExchanges(call[p], exchanges) :
       LET c == call[p]
           r == GetGenderByName(LookupKey(c.person), resp)
       IN call' = [call EXCEPT ![p] =
            IF GenderAbsent(c.person)
              THEN [c EXCEPT !.pc = "nationality", !.person = SetGender(c.person, r),
                             !.looked = @ \cup {"gender"},
                             !.keys = @ \cup {LookupKey(c.person)},
                             !.nlook.gender = @ + Attempts(r),
                             !.nreq.gender = @ + Attempts(r) * Requests(r),
                             !.ok = IF r.err = "nil" THEN @ \cup {"gender"} ELSE @,
                             !.got.gender =
                                [v |-> r.gender, p |-> r.probability, err |-> Outcome(r.err),
                                 body |-> resp.body]]
              ELSE [c EXCEPT !.pc = "nationality"]]
  /\ UNCHANGED <<persons, now, ncalls, fullAt, probe, req, reply, server>>

EnrichGender(p) == EnrichGenderOn(p, GenderExchanges)

(* `if person.Nationality == nil { GetNationalityByName ... }` *)
EnrichNationalityOn(p, exchanges) ==
  /\ call[p].pc = "nationality"
  /\ \E resp \in CtxExchanges(call[p], exchanges) :
       LET c == call[p]
           r == GetNationalityByName(LookupKey(c.person), resp)
       IN call' = [call EXCEPT ![p] =
            IF NationalityAbsent(c.person)
              THEN [c EXCEPT !.pc = "update", !.person = SetNationality(c.person, r),
                             !.looked = @ \cup {"nationality"},
                             !.keys = @ \cup {LookupKey(c.person)},
                             !.nlook.nationality = @ + Attempts(r),
                             !.nreq.nationality = @ + Attempts(r) * Requests(r),
                             !.ok = IF r.err = "nil" THEN @ \cup {"nationality"} ELSE @,
                             !.got.nationality =
                                [v |-> r.nationality, p |-> r.probability, err |-> Outcome(r.err),
                                 body |-> resp.body]]
              ELSE [c EXCEPT !.pc = "update"]]
  /\ UNCHANGED <<persons, now, ncalls, fullAt, probe, req, reply, server>>

EnrichNationality(p) == EnrichNationalityOn(p, NationalityExchanges)

(* No demographic column of the row is set. *)
NoDemographics(person) ==
  /\ person.age = NilInt
  /\ person.gender = NilStr /\ person.gender_probability = NilInt
  /\ person.nationality = NilStr /\ person.nationality_probability = NilInt

(* EnrichPerson returning the record without UpdatePerson when no lookup   *)
(* changed it                                                              *)
EnrichUpdate_SkipUnchanged(p, dbfail) ==
  /\ call[p].pc = "update"
  /\ now < MaxTime
  /\ LET c == call[p]
         u == IF c.person = c.loaded
                THEN [person |-> c.person, err |-> "nil", rows |-> persons]
                ELSE RepoUpdatePerson(persons, c.person, now, dbfail)
         wrote == c.person # c.loaded
     IN /\ persons' = u.rows
        /\ now' = IF wrote /\ u.err = "nil" THEN now + 1 ELSE now
        /\ call' = [call EXCEPT ![p] =
             [c EXCEPT !.pc = "done", !.writes = IF wrote THEN @ + 1 ELSE @,
                       !.arg = IF wrote THEN c.person ELSE NoPerson,
                       !.person = u.person,
                       !.before = IF c.id \in DOMAIN persons
                                    THEN persons[c.id] ELSE NoPerson,
                       !.stored = IF wrote /\ u.err = "nil"
                                    THEN u.rows[c.id] ELSE NoPerson,
                       !.uerr = u.err, !.err = u.err,
                       !.ret = IF u.err = "nil" THEN u.person ELSE NoPerson,
                       !.status = SaveStatus(c.impl, u.err)]]
        /\ fullAt' = IF u.err = "nil" /\ NoDemographics(c.loaded) /\ c.ok = Fields
                       THEN fullAt \cup {now} ELSE fullAt
  /\ UNCHANGED <<ncalls, probe, req, reply, server>>

(* UpdatePerson invoked while the nationality lookup is still to be made *)
EnrichUpdate_BeforeNationality(p, dbfail) ==
  /\ call[p].pc \in {"nationality", "update"}
  /\ now < MaxTime
  /\ LET c == call[p]
         u == RepoUpdatePerson(persons, c.person, now, dbfail)
     IN /\ persons' = u.rows
        /\ now' = IF u.err = "nil" THEN now + 1 ELSE now
        /\ call' = [call EXCEPT ![p] =
             [c EXCEPT !.pc = "done", !.writes = @ + 1, !.arg = c.person,
                       !.person = u.person,
                       !.before = IF c.id \in DOMAIN persons
                                    THEN persons[c.id] ELSE NoPerson,
                       !.stored = IF u.err = "nil" THEN u.rows[c.id] ELSE NoPerson,
                       !.uerr = u.err, !.err = u.err,
                       !.ret = IF u.err = "nil" THEN u.person ELSE NoPerson,
                       !.status = SaveStatus(c.impl, u.err)]]
        /\ fullAt' = IF u.err = "nil" /\ NoDemographics(c.loaded) /\ c.ok = Fields
                       THEN fullAt \cup {now} ELSE fullAt
  /\ UNCHANGED <<ncalls, probe, req, reply, server>>

(* The record returned although UpdatePerson failed *)
SaveReturn_Always(u) == u.person

(* `return nil, err` when UpdatePerson failed, `return person, nil` else. *)
SaveReturn(u) == IF u.err = "nil" THEN u.person ELSE NoPerson

(* UpdatePerson and the return of EnrichPerson.  fullAt collects the times *)
(* of the writes made by calls that loaded a row without demographic       *)
(* fields and had all three lookups succeed.                               *)
EnrichUpdate(p, dbfail) ==
  /\ call[p].pc = "update"
  /\ now < MaxTime
  /\ LET c == call[p]
         u == IF Cancelled(c)
                THEN [person |-> [c.person EXCEPT !.updated_at = now],
                      err |-> "context canceled", rows |-> persons]
                ELSE RepoUpdatePerson(persons, c.person, now, dbfail)
     IN /\ persons' = u.rows
        /\ now' = IF u.err = "nil" THEN now + 1 ELSE now
        /\ call' = [call EXCEPT ![p] =
             [c EXCEPT !.pc = "done", !.writes = @ + 1, !.arg = c.person,
                       !.person = u.person,
                       !.before = IF c.id \in DOMAIN persons
                                    THEN persons[c.id] ELSE NoPerson,
                       !.stored = IF u.err = "nil" THEN u.rows[c.id] ELSE NoPerson,
                       !.uerr = u.err, !.err = u.err,
                       !.ret = SaveReturn(u),
                       !.status = SaveStatus(c.impl, u.err)]]
        /\ fullAt' = IF u.err = "nil" /\ NoDemographics(c.loaded) /\ c.ok = Fields
                       THEN fullAt \cup {now} ELSE fullAt
  /\ UNCHANGED <<ncalls, probe, req, reply, server>>

(* The caller has the result and the process is free for the next call. *)
EnrichReturn(p) ==
  /\ call[p].pc = "done"
  /\ LET c == call[p]
     IN call' = [call EXCEPT ![p] =
          [IdleCall EXCEPT !.prev =
             IF c.writes = 1 /\ c.uerr = "nil"
               THEN [at |-> c.stored.updated_at, failed |-> c.looked \ c.ok,
                     filled |-> c.ok]
               ELSE NoPrev]]
  /\ UNCHANGED <<persons, now, ncalls, fullAt, probe, req, reply, server>>

----------------------------------------------------------------------------
(* The other writers of the table. *)

(* PersonHandler.CreatePerson: POST /persons.  A body without name or      *)
(* surname is answered 400 before the repository is called.                *)
CreatePerson(body, fresh, dbfail) ==
  /\ now < MaxTime
  /\ body.name # "" /\ body.surname # ""
  /\ LET person == IF body.id = NilID THEN [body EXCEPT !.id = fresh] ELSE body
         r == RepoCreatePerson(persons, person, fresh, now, dbfail)
     IN /\ persons' = r.rows
        /\ now' = IF r.err = "nil" THEN now + 1 ELSE now
  /\ UNCHANGED <<call, ncalls, fullAt, probe, req, reply, server>>

(* personServiceImpl.CreatePerson: no validation of its own. *)
ServiceCreatePerson(body, fresh, dbfail) ==
  /\ now < MaxTime
  /\ LET r == RepoCreatePerson(persons, body, fresh, now, dbfail)
     IN /\ persons' = r.rows
        /\ now' = IF r.err = "nil" THEN now + 1 ELSE now
  /\ UNCHANGED <<call, ncalls, fullAt, probe, req, reply, server>>

(* PersonHandler.DeletePerson / personServiceImpl.DeletePerson *)
DeletePerson(personID, dbfail) ==
  /\ persons' = RepoDeletePerson(persons, personID, dbfail).rows
  /\ UNCHANGED <<now, call, ncalls, fullAt, probe, req, reply, server>>

----------------------------------------------------------------------------
(* The service: requests arrive in any order and interleave with the steps *)
(* of the Enrich call in progress.                                         *)

NoProbe == [fn |-> "none"]

(* req is the PUT/PATCH request between its ExistsByID and its UpdatePerson, *)
(* reply the last response a handler sent, server the state of            *)
(* Server.Start.                                                           *)
NoRequest == [pc |-> "none"]

NoResponse == [op |-> "none"]

NotStarted == [pc |-> "new", listener |-> "none", ctx |-> "live", ret |-> "none"]

Init ==
  /\ persons = <<>>
  /\ now = 0
  /\ call = [p \in Procs |-> IdleCall]
  /\ ncalls = 0
  /\ fullAt = {}
  /\ probe = NoProbe
  /\ req = NoRequest
  /\ reply = NoResponse
  /\ server = NotStarted

Next ==
  \/ \E p \in Procs, impl \in Impls, id \in IDs, dbfail \in BOOLEAN :
       EnrichLoad(p, impl, id, dbfail)
  \/ \E p \in Procs : EnrichAge(p)
  \/ \E p \in Procs : EnrichGender(p)
  \/ \E p \in Procs : EnrichNationality(p)
  \/ \E p \in Procs, dbfail \in BOOLEAN : EnrichUpdate(p, dbfail)
  \/ \E p \in Procs : EnrichReturn(p)
  \/ \E body \in Bodies, fresh \in NewUUIDs \ DOMAIN persons, dbfail \in BOOLEAN :
       CreatePerson(body, fresh, dbfail)
  \/ \E body \in Bodies, fresh \in NewUUIDs \ DOMAIN persons, dbfail \in BOOLEAN :
       ServiceCreatePerson(body, fresh, dbfail)
  \/ \E personID \in IDs, dbfail \in BOOLEAN : DeletePerson(personID, dbfail)

Spec == Init /\ [][Next]_vars

----------------------------------------------------------------------------
(* The lookup clients on their own: probe is the last call made to one of  *)
(* them, with the name, the exchange and what the client returned; each    *)
(* behaviour makes one call.                                               *)

ProbeAges == {0, 28}
ProbeGenders == {"", "male", "female"}
ProbeProbabilities == {0, 40000, 70000, 90000}
ProbeCountries ==
  { [country_id |-> c, probability |-> q] :
      c \in {"ES", "IT", "JP"}, q \in {40000, 70000, 90000} }

RECURSIVE SeqsUpTo(_, _)
SeqsUpTo(S, n) ==
  IF n = 0 THEN { <<>> }
  ELSE LET shorter == SeqsUpTo(S, n - 1)
       IN shorter \cup { Append(q, x) : q \in shorter, x \in S }

AgeProbes ==
  HttpFailures \cup
  { HttpOk([age |-> a, count |-> c]) : a \in ProbeAges, c \in 0..MaxCount }

GenderProbes ==
  HttpFailures \cup
  { HttpOk([gender |-> g, probability |-> q]) :
      g \in ProbeGenders, q \in ProbeProbabilities }

NationalityProbes ==
  HttpFailures \cup { HttpOk(l) : l \in SeqsUpTo(ProbeCountries, MaxCountries) }

ProbeAge(name, resp) ==
  /\ probe = NoProbe
  /\ probe' = [fn |-> "age", name |-> name, resp |-> resp,
               ret |-> GetAgeByName(name, resp)]
  /\ UNCHANGED <<persons, now, call, ncalls, fullAt, req, reply, server>>

ProbeGender(name, resp) ==
  /\ probe = NoProbe
  /\ probe' = [fn |-> "gender", name |-> name, resp |-> resp,
               ret |-> GetGenderByName(name, resp)]
  /\ UNCHANGED <<persons, now, call, ncalls, fullAt, req, reply, server>>

ProbeNationality(name, resp) ==
  /\ probe = NoProbe
  /\ probe' = [fn |-> "nationality", name |-> name, resp |-> resp,
               ret |-> GetNationalityByName(name, resp)]
  /\ UNCHANGED <<persons, now, call, ncalls, fullAt, req, reply, server>>

LookupNext ==
  \/ \E name \in Names, resp \in AgeProbes : ProbeAge(name, resp)
  \/ \E name \in Names, resp \in GenderProbes : ProbeGender(name, resp)
  \/ \E name \in Names, resp \in NationalityProbes : ProbeNationality(name, resp)

LookupSpec == Init /\ [][LookupNext]_vars

(* The probe is a call with a non-empty name that the service answered *)
Answered(fn) ==
  /\ probe.fn = fn
  /\ probe.name # ""
  /\ probe.resp.kind = "ok"

----------------------------------------------------------------------------
(* C8: for a non-empty candidate list GetNationalityByName returns the     *)
(* candidate at the smallest index whose probability is the maximum of the *)
(* list; a later candidate of equal probability never replaces it.         *)
C8_TieBreak ==
  (Answered("nationality") /\ Len(probe.resp.body) > 0) =>
    /\ probe.ret.err = "nil"
    /\ \E i \in 1..Len(probe.resp.body) :
         /\ probe.ret.nationality = probe.resp.body[i].country_id
         /\ probe.ret.probability = probe.resp.body[i].probability
         /\ \A j \in 1..Len(probe.resp.body) :
              probe.resp.body[j].probability <= probe.resp.body[i].probability
         /\ \A j \in 1..(i - 1) :
              probe.resp.body[j].probability < probe.resp.body[i].probability

(* a list whose maximum is shared by a later candidate of another country *)
C8_Witness ==
  /\ Answered("nationality")
  /\ Len(probe.resp.body) = 3
  /\ probe.resp.body[1].probability < probe.resp.body[2].probability
  /\ probe.resp.body[2].probability = probe.resp.body[3].probability
  /\ probe.resp.body[2].country_id # probe.resp.body[3].country_id
  /\ probe.ret.nationality = probe.resp.body[2].country_id

(* C9: a successful answer with an empty country list makes                *)
(* GetNationalityByName return "", 0 and a nil error.                      *)
C9_EmptyList ==
  (Answered("nationality") /\ Len(probe.resp.body) = 0) =>
    /\ probe.ret.nationality = ""
    /\ probe.ret.probability = 0
    /\ probe.ret.err = "nil"

C9_Witness ==
  /\ Answered("nationality")
  /\ probe.resp.body = <<>>
  /\ probe.ret.err = "nil"

(* C10: for a sample count c >= 0 GetAgeByName returns the confidence      *)
(* min(c / 1000, 1.0): c/1000 below 1000, 1.0 from 1000 on; 500 gives 0.5, *)
(* 1000 and 2000 give 1.0, and the confidence lies in [0, 1].              *)
C10_AgeConfidence ==
  Answered("age") =>
    LET c == probe.resp.body.count
        conf == probe.ret.probability
    IN /\ probe.ret.err = "nil"
       /\ probe.ret.age = probe.resp.body.age
       /\ 0 <= conf /\ conf <= One
       /\ (c < 1000 => conf * 1000 = c * One)
       /\ (c >= 1000 => conf = One)
       /\ (c = 500 => 2 * conf = One)

C10_Witness ==
  /\ Answered("age")
  /\ probe.resp.body.count = 2000
  /\ probe.ret.probability = One

----------------------------------------------------------------------------
(* Enrich calls *)

(* GetByID returned a row to the call *)
Loaded(c) == c.pc # "idle" /\ c.lerr = "nil"

(* the call has returned *)
Done(c) == c.pc = "done"

Demographics(r) ==
  <<r.age, r.gender, r.gender_probability, r.nationality, r.nationality_probability>>

(* C1: a lookup is never invoked for a demographic field that is present   *)
(* in the record GetByID returned, whatever the other two fields are.      *)
C1_SkipIfPresent ==
  \A p \in Procs :
    LET c == call[p]
    IN Loaded(c) =>
         /\ (c.loaded.age # NilInt => "age" \notin c.looked)
         /\ (c.loaded.gender # NilStr => "gender" \notin c.looked)
         /\ (c.loaded.nationality # NilStr => "nationality" \notin c.looked)

(* a finished call that found the age set and looked up the other two *)
C1_Witness ==
  \E p \in Procs :
    /\ Done(call[p]) /\ Loaded(call[p])
    /\ call[p].loaded.age # NilInt
    /\ call[p].looked = {"gender", "nationality"}
    /\ call[p].writes = 1

(* C2: for a loaded record with age, gender and nationality absent, every  *)
(* lookup is attempted whichever of them fail and however; the record      *)
(* passed to UpdatePerson has the value (and probability) of each lookup   *)
(* that succeeded and leaves the field of each failed lookup absent; and   *)
(* when the update succeeds Enrich returns that record and no error.       *)
C2_PartialFailure ==
  \A p \in Procs :
    LET c == call[p]
    IN (Done(c) /\ Loaded(c) /\ c.loaded.age = NilInt
          /\ c.loaded.gender = NilStr /\ c.loaded.nationality = NilStr) =>
         /\ c.looked = Fields
         /\ c.writes = 1
         /\ c.arg.age = IF c.got.age.err = "nil" THEN c.got.age.v ELSE NilInt
         /\ IF c.got.gender.err = "nil"
              THEN /\ c.arg.gender = c.got.gender.v
                   /\ c.arg.gender_probability = c.got.gender.p
              ELSE /\ c.arg.gender = NilStr
                   /\ c.arg.gender_probability = c.loaded.gender_probability
         /\ IF c.got.nationality.err = "nil"
              THEN /\ c.arg.nationality = c.got.nationality.v
                   /\ c.arg.nationality_probability = c.got.nationality.p
              ELSE /\ c.arg.nationality = NilStr
                   /\ c.arg.nationality_probability = c.loaded.nationality_probability
         /\ (c.uerr = "nil" =>
               /\ c.err = "nil"
               /\ c.ret = [c.arg EXCEPT !.updated_at = c.ret.updated_at]
               /\ (c.impl = "handler" => c.status = 200))

(* age and nationality failed, gender succeeded, and the call succeeded *)
C2_Witness ==
  \E p \in Procs :
    /\ Done(call[p]) /\ NoDemographics(call[p].loaded)
    /\ call[p].loaded.name # ""
    /\ call[p].got.age.err = "failed"
    /\ call[p].got.gender.err = "nil"
    /\ call[p].got.nationality.err = "failed"
    /\ call[p].err = "nil"
    /\ call[p].ret.gender = "female" /\ call[p].ret.age = NilInt

(* C3: when all three lookups failed, or all three fields were present so  *)
(* that none was made, Enrich calls UpdatePerson exactly once for the      *)
(* loaded record, and with that update succeeding the row's updated_at is  *)
(* refreshed and Enrich returns success.                                   *)
C3_TotalFailure ==
  \A p \in Procs :
    LET c == call[p]
        allFailed == c.looked = Fields /\ c.ok = {}
        allPresent == /\ c.loaded.age # NilInt
                      /\ c.loaded.gender # NilStr
                      /\ c.loaded.nationality # NilStr
    IN (Done(c) /\ Loaded(c) /\ (allFailed \/ allPresent)) =>
         /\ c.writes = 1
         /\ c.arg.id = c.id
         /\ (allPresent => c.looked = {})
         /\ (c.uerr = "nil" =>
               /\ c.err = "nil"
               /\ c.ret.id = c.id
               /\ c.stored.updated_at > c.loaded.updated_at
               /\ c.stored.updated_at = c.ret.updated_at)

(* three failed lookups for a named record, written and returned *)
C3_Witness ==
  \E p \in Procs :
    /\ Done(call[p]) /\ Loaded(call[p])
    /\ call[p].loaded.name # ""
    /\ call[p].looked = Fields /\ call[p].ok = {}
    /\ call[p].writes = 1 /\ call[p].err = "nil"
    /\ call[p].stored.updated_at > call[p].loaded.updated_at

(* C4: a call whose id has no row when GetByID runs makes no lookup and no *)
(* store write and returns at once; unless the query itself failed it      *)
(* returns ErrPersonNotFound (404 from the handler) and no record; and     *)
(* that step leaves the table as it was.                                   *)
C4_NotFound ==
  /\ [](\A p \in Procs :
          LET c == call[p]
          IN (c.pc # "idle" /\ c.missing) =>
               /\ Done(c)
               /\ c.reads = 1 /\ c.looked = {} /\ c.writes = 0
               /\ c.ret = NoPerson
               /\ c.err # "nil"
               /\ (c.lerr # "db" =>
                     /\ c.err = "ErrPersonNotFound"
                     /\ (c.impl = "handler" => c.status = 404)))
  /\ [][\A p \in Procs :
          (call[p].pc = "idle" /\ call'[p].pc # "idle" /\ call'[p].missing)
            => persons' = persons]_vars

(* an id without a row, asked for while the table holds another row *)
C4_Witness ==
  \E p \in Procs :
    /\ Done(call[p]) /\ call[p].missing
    /\ call[p].err = "ErrPersonNotFound"
    /\ call[p].id \notin DOMAIN persons
    /\ DOMAIN persons # {}

(* C5: a call that loaded a row without demographic fields and had three   *)
(* successful lookups made 3 lookups and 1 write and stored all three      *)
(* fields; the next call on that row, no other write in between, makes 0   *)
(* lookups and 1 write, and the row it stores differs from the one it      *)
(* loaded in updated_at only.                                              *)
C5_Idempotence ==
  \A p \in Procs :
    LET c == call[p]
    IN /\ (Done(c) /\ Loaded(c) /\ NoDemographics(c.loaded) /\ c.ok = Fields) =>
            /\ Cardinality(c.looked) = 3
            /\ c.writes = 1
            /\ (c.uerr = "nil" =>
                  /\ c.stored.updated_at \in fullAt
                  /\ c.stored.age # NilInt
                  /\ c.stored.gender # NilStr
                  /\ c.stored.nationality # NilStr)
       /\ (Done(c) /\ Loaded(c) /\ c.loaded.updated_at \in fullAt
             /\ c.before = c.loaded) =>
            /\ c.looked = {}
            /\ c.writes = 1
            /\ c.uerr = "nil" =>
                 /\ Demographics(c.stored) = Demographics(c.loaded)
                 /\ c.stored = [c.loaded EXCEPT !.updated_at = c.stored.updated_at]
                 /\ c.stored.updated_at > c.loaded.updated_at

(* the second of two such calls has written *)
C5_Witness ==
  \E p \in Procs :
    /\ Done(call[p])
    /\ call[p].loaded.updated_at \in fullAt
    /\ call[p].before = call[p].loaded
    /\ call[p].looked = {} /\ call[p].writes = 1 /\ call[p].err = "nil"
    /\ call[p].stored.gender_probability = 98770

(* C11: enriching a stored Person named "Maria" without demographic fields, *)
(* with the age service answering (28, count 2000), the gender service     *)
(* ("female", 0.98) and the nationality service [("ES",0.4),("IT",0.7)],   *)
(* persists and returns age 28, gender "female" with probability 0.98 and  *)
(* nationality "IT" with probability 0.7; the age confidence (1.0) is in   *)
(* no column of the row.                                                   *)
C11_Scenario ==
  \A p \in Procs :
    LET c == call[p]
        expected == <<28, "female", 98000, "IT", 70000>>
    IN (/\ Done(c) /\ Loaded(c) /\ c.uerr = "nil"
        /\ c.loaded.name = "Maria" /\ NoDemographics(c.loaded)
        /\ c.looked = Fields /\ c.ok = Fields
        /\ c.got.age.body = [age |-> 28, count |-> 2000]
        /\ c.got.gender.body = [gender |-> "female", probability |-> 98000]
        /\ c.got.nationality.body = <<[country_id |-> "ES", probability |-> 40000],
                                      [country_id |-> "IT", probability |-> 70000]>>) =>
         /\ c.err = "nil"
         /\ Demographics(c.stored) = expected
         /\ Demographics(c.ret) = expected
         /\ c.got.age.p = One
         /\ "age_probability" \notin DOMAIN c.stored

(* the scenario has run through the handler and the row holds its result *)
C11_Witness ==
  \E p \in Procs :
    /\ Done(call[p]) /\ call[p].impl = "handler" /\ call[p].status = 200
    /\ NoDemographics(call[p].loaded) /\ call[p].ok = Fields
    /\ call[p].got.gender.body = [gender |-> "female", probability |-> 98000]
    /\ call[p].id \in DOMAIN persons
    /\ Demographics(persons[call[p].id]) = <<28, "female", 98000, "IT", 70000>>

(* C6: every demographic field (age, gender, gender_probability,           *)
(* nationality, nationality_probability) present in the loaded record has  *)
(* the same value in the record passed to UpdatePerson.                    *)
C6_NeverOverwrites ==
  \A p \in Procs :
    LET c == call[p]
    IN (Loaded(c) /\ c.writes > 0) =>
         /\ (c.loaded.age # NilInt => c.arg.age = c.loaded.age)
         /\ (c.loaded.gender # NilStr => c.arg.gender = c.loaded.gender)
         /\ (c.loaded.gender_probability # NilInt =>
               c.arg.gender_probability = c.loaded.gender_probability)
         /\ (c.loaded.nationality # NilStr => c.arg.nationality = c.loaded.nationality)
         /\ (c.loaded.nationality_probability # NilInt =>
               c.arg.nationality_probability = c.loaded.nationality_probability)

(* C7: a lookup that returns no error but no determination ("" with        *)
(* probability 0) leaves the field and its probability absent in the       *)
(* record that is persisted and returned.                                  *)
C7_NoDeterminationAbsent ==
  \A p \in Procs :
    LET c == call[p]
        undetermined(a) == a.err = "nil" /\ a.v = "" /\ a.p = 0
    IN (Loaded(c) /\ c.writes > 0) =>
         /\ (undetermined(c.got.gender) /\ c.loaded.gender_probability = NilInt) =>
               c.arg.gender = NilStr /\ c.arg.gender_probability = NilInt
         /\ undetermined(c.got.nationality) =>
               c.arg.nationality = NilStr /\ c.arg.nationality_probability = NilInt

----------------------------------------------------------------------------
(* Order and number of the effects of an Enrich call *)

(* the field is NULL in the record *)
IsAbsent(r, f) ==
  CASE f = "age" -> r.age = NilInt
    [] f = "gender" -> r.gender = NilStr
    [] f = "nationality" -> r.nationality = NilStr

(* the attempt for the field has resolved: its lookup was invoked (and      *)
(* succeeded or failed) or was skipped because the field was present        *)
Resolved(c, f) == f \in c.looked \/ ~IsAbsent(c.loaded, f)

Total(n) == n.age + n.gender + n.nationality

(* C12: in every Enrich call GetByID has completed before any lookup is    *)
(* invoked; UpdatePerson is invoked only after each of the three lookup    *)
(* attempts has resolved as succeeded, skipped or failed; and no lookup is *)
(* invoked after the write.                                                *)
C12_Ordering ==
  /\ [](\A p \in Procs :
          LET c == call[p]
          IN /\ (c.looked # {} => c.reads = 1 /\ c.lerr = "nil")
             /\ (c.writes > 0 =>
                   /\ c.reads = 1 /\ c.lerr = "nil"
                   /\ \A f \in Fields : Resolved(c, f)))
  /\ [][\A p \in Procs :
          /\ (call'[p].looked # call[p].looked /\ call'[p].pc # "idle") =>
                /\ call[p].reads = 1
                /\ call[p].writes = 0 /\ call'[p].writes = 0
          /\ (call[p].writes > 0 /\ call'[p].pc # "idle") =>
                /\ call'[p].looked = call[p].looked
                /\ call'[p].nlook = call[p].nlook]_vars

(* a call that skipped the age, had one lookup fail and one succeed, and   *)
(* then wrote                                                              *)
C12_Witness ==
  \E p \in Procs :
    /\ Done(call[p]) /\ call[p].writes = 1 /\ call[p].reads = 1
    /\ call[p].loaded.age # NilInt
    /\ call[p].looked = {"gender", "nationality"}
    /\ call[p].ok = {"nationality"}
    /\ call[p].loaded.name # ""

(* C13: every Enrich call makes at most one store read, at most one call   *)
(* of each lookup client (so at most three lookups) and at most one HTTP   *)
(* request per client; once it has returned it has made exactly one store  *)
(* write if GetByID succeeded and none if GetByID failed.                  *)
C13_SideEffects ==
  \A p \in Procs :
    LET c == call[p]
    IN /\ c.reads <= 1
       /\ \A f \in Fields : c.nlook[f] <= 1 /\ c.nreq[f] <= 1
       /\ Total(c.nlook) <= 3 /\ Total(c.nreq) <= 3
       /\ c.writes <= 1
       /\ (Done(c) /\ Loaded(c)) => c.writes = 1
       /\ (c.pc # "idle" /\ ~Loaded(c)) => (Done(c) /\ c.writes = 0 /\ c.looked = {})

(* three lookups of which two failed, one read and one write *)
C13_Witness ==
  \E p \in Procs :
    /\ Done(call[p]) /\ Loaded(call[p])
    /\ Total(call[p].nlook) = 3 /\ Total(call[p].nreq) = 3
    /\ Cardinality(call[p].ok) = 1
    /\ call[p].reads = 1 /\ call[p].writes = 1

(* C14: when UpdatePerson fails at the end of an Enrich call, the call     *)
(* returns that error (wrapped) and no record, the handler answers 500,    *)
(* also when all three lookups succeeded; and the step leaves every row as *)
(* it was.                                                                 *)
C14_PersistenceFailure ==
  /\ [](\A p \in Procs :
          LET c == call[p]
          IN (Done(c) /\ Loaded(c) /\ c.uerr # "nil") =>
               /\ c.err = c.uerr
               /\ c.ret = NoPerson
               /\ (c.impl = "handler" => c.status = 500)
               /\ c.stored = NoPerson)
  /\ [][\A p \in Procs :
          (call[p].pc = "update" /\ call'[p].pc = "done" /\ call'[p].uerr # "nil")
            => persons' = persons]_vars

(* three successful lookups, a failed update, and the row still without    *)
(* demographic fields                                                      *)
C14_Witness ==
  \E p \in Procs :
    /\ Done(call[p]) /\ Loaded(call[p])
    /\ call[p].ok = Fields /\ call[p].uerr = "db"
    /\ call[p].impl = "handler" /\ call[p].status = 500
    /\ call[p].id \in DOMAIN persons
    /\ NoDemographics(persons[call[p].id])

(* C15: for a stored record whose name is empty each lookup client invoked *)
(* returns the empty-name error with the zero value and probability 0 and  *)
(* issues no HTTP request; the record passed to UpdatePerson has the       *)
(* fields as loaded, and UpdatePerson is still called.                     *)
C15_EmptyName ==
  \A p \in Procs :
    LET c == call[p]
        emptyNameError(a) == a.err = "ErrEmptyName" /\ a.p = 0
    IN (Loaded(c) /\ c.loaded.name = "") =>
         /\ ("age" \in c.looked =>
               emptyNameError(c.got.age) /\ c.got.age.v = 0)
         /\ ("gender" \in c.looked =>
               emptyNameError(c.got.gender) /\ c.got.gender.v = "")
         /\ ("nationality" \in c.looked =>
               emptyNameError(c.got.nationality) /\ c.got.nationality.v = "")
         /\ Total(c.nreq) = 0
         /\ c.ok = {}
         /\ (Done(c) =>
               /\ c.writes = 1
               /\ c.looked = { f \in Fields : IsAbsent(c.loaded, f) }
               /\ c.arg = c.loaded
               /\ (c.uerr = "nil" =>
                     /\ c.err = "nil"
                     /\ Demographics(c.stored) = Demographics(c.loaded)
                     /\ c.stored.updated_at > c.loaded.updated_at))

(* an empty-named record enriched: three lookups, no request, one write *)
C15_Witness ==
  \E p \in Procs :
    /\ Done(call[p]) /\ Loaded(call[p])
    /\ call[p].loaded.name = ""
    /\ Total(call[p].nlook) = 3 /\ Total(call[p].nreq) = 0
    /\ call[p].writes = 1 /\ call[p].err = "nil"

(* C16: within one Enrich call no lookup client is invoked twice and an    *)
(* invocation issues at most one HTTP request; the field of a failed       *)
(* lookup is stored as absent; and the next Enrich call on the row that    *)
(* call wrote invokes the lookups that had failed and none of the lookups  *)
(* that had succeeded.                                                     *)
C16_RetryAcrossCalls ==
  \A p \in Procs :
    LET c == call[p]
    IN /\ \A f \in Fields : c.nlook[f] <= 1 /\ c.nreq[f] <= c.nlook[f]
       /\ (Done(c) /\ Loaded(c) /\ c.uerr = "nil") =>
            \A f \in c.looked \ c.ok : IsAbsent(c.stored, f)
       /\ (Done(c) /\ Loaded(c) /\ c.prev.at # NilInt
             /\ c.prev.at = c.loaded.updated_at) =>
            /\ c.prev.failed \subseteq c.looked
            /\ c.prev.filled \cap c.looked = {}

(* a second call that retried exactly what had failed in the first *)
C16_Witness ==
  \E p \in Procs :
    /\ Done(call[p]) /\ Loaded(call[p])
    /\ call[p].loaded.name # ""
    /\ call[p].prev.at = call[p].loaded.updated_at
    /\ call[p].prev.failed = {"gender"}
    /\ call[p].prev.filled = {"age", "nationality"}
    /\ call[p].looked = {"gender"} /\ call[p].ok = {"gender"}

----------------------------------------------------------------------------
(* Concurrent requests on one row: two Enrich calls in progress, PUT/PATCH  *)
(* /persons/:id and the cancellation of a caller's context.                *)

Workers == {"p1", "p2"}

(* Bodies without a probability that lacks its value. *)
ConcBodies ==
  { NewPerson(NilID, "Maria", "Diaz", NilStr, NilInt, NilStr, NilInt, NilStr, NilInt) }

UpdateBodies ==
  { NewPerson(NilID, "Maria", "Diaz", NilStr, NilInt, "male", 50000, NilStr, NilInt),
    NewPerson(NilID, "", "Diaz", NilStr, NilInt, NilStr, NilInt, NilStr, NilInt) }

(* The answers of the lookup services to the concurrent calls. *)
ConcAgeExchanges ==
  { [kind |-> "status", body |-> <<>>], HttpOk([age |-> 28, count |-> 2000]) }

ConcGenderExchanges ==
  { [kind |-> "transport", body |-> <<>>],
    HttpOk([gender |-> "female", probability |-> 98000]) }

ConcNationalityExchanges ==
  { [kind |-> "decode", body |-> <<>>],
    HttpOk(<<[country_id |-> "ES", probability |-> 40000],
             [country_id |-> "IT", probability |-> 70000]>>) }

(* PersonHandler.UpdatePerson: PUT and PATCH /persons/:id.  404 when the   *)
(* row does not exist, 400 for a body without name or surname; otherwise   *)
(* every column is written from the body.                                  *)
UpdatePerson(personID, body, existsFail, dbfail) ==
  /\ now < MaxTime
  /\ LET e == ExistsByID(persons, personID, existsFail)
         person == [body EXCEPT !.id = personID]
         rejected == \/ e.err # "nil" \/ ~e.exists
                     \/ person.name = "" \/ person.surname = ""
         u == IF rejected
                THEN [person |-> person, err |-> "rejected", rows |-> persons]
                ELSE RepoUpdatePerson(persons, person, now, dbfail)
     IN /\ persons' = u.rows
        /\ now' = IF u.err = "nil" THEN now + 1 ELSE now
  /\ UNCHANGED <<call, ncalls, fullAt, probe, req, reply, server>>

(* The caller cancels the context of its call, before the call or at any   *)
(* point up to the store write.                                            *)
Cancel(p) ==
  /\ call[p].pc \in {"idle", "age", "gender", "nationality", "update"}
  /\ call[p].ctx = "live"
  /\ call' = [call EXCEPT ![p].ctx = "cancelled"]
  /\ UNCHANGED <<persons, now, ncalls, fullAt, probe, req, reply, server>>

ConcInit ==
  /\ persons = <<>>
  /\ now = 0
  /\ call = [p \in Workers |-> IdleCall]
  /\ ncalls = 0
  /\ fullAt = {}
  /\ probe = NoProbe
  /\ req = NoRequest
  /\ reply = NoResponse
  /\ server = NotStarted

ConcNext ==
  \/ \E p \in Workers, impl \in Impls, id \in NewUUIDs :
       EnrichLoad(p, impl, id, FALSE)
  \/ \E p \in Workers : EnrichAgeOn(p, ConcAgeExchanges)
  \/ \E p \in Workers : EnrichGenderOn(p, ConcGenderExchanges)
  \/ \E p \in Workers : EnrichNationalityOn(p, ConcNationalityExchanges)
  \/ \E p \in Workers, dbfail \in BOOLEAN : EnrichUpdate(p, dbfail)
  \/ \E p \in Workers : EnrichReturn(p)
  \/ \E p \in Workers : Cancel(p)
  \/ \E body \in ConcBodies, fresh \in NewUUIDs \ DOMAIN persons :
       CreatePerson(body, fresh, FALSE)
  \/ \E personID \in IDs, body \in UpdateBodies, existsFail, dbfail \in BOOLEAN :
       UpdatePerson(personID, body, existsFail, dbfail)

ConcSpec == ConcInit /\ [][ConcNext]_vars

----------------------------------------------------------------------------
(* C17: an Enrich call whose context is cancelled before the call, between *)
(* its lookups or before its store write returns the cancellation error    *)
(* and no record (500 from the handler), never success; and no step of a   *)
(* call whose context is cancelled changes a row, so nothing it looked up  *)
(* is persisted.                                                           *)
C17_Cancellation ==
  /\ [](\A p \in Workers :
          LET c == call[p]
          IN (Done(c) /\ c.ctx = "cancelled") =>
               /\ c.err = "context canceled"
               /\ c.ret = NoPerson
               /\ c.stored = NoPerson
               /\ (c.impl = "handler" => c.status = 500))
  /\ [][\A p \in Workers :
          (call[p].ctx = "cancelled" /\ call'[p] # call[p]) => persons' = persons]_vars

(* cancelled after a lookup had succeeded: the update was attempted, the   *)
(* call failed and the row has no demographic field                        *)
C17_Witness ==
  \E p \in Workers :
    /\ Done(call[p]) /\ call[p].ctx = "cancelled"
    /\ call[p].ok = {"age", "gender"} /\ call[p].looked = Fields
    /\ call[p].writes = 1 /\ call[p].err = "context canceled"
    /\ call[p].id \in DOMAIN persons
    /\ NoDemographics(persons[call[p].id])

(* C18: whatever other Enrich and Update calls interleave with it, the     *)
(* write of an Enrich call leaves every demographic column that is set in  *)
(* the row immediately before the write with the value it had.             *)
C18_NoLostValues ==
  \A p \in Workers :
    LET c == call[p]
    IN (Done(c) /\ Loaded(c) /\ c.writes = 1 /\ c.uerr = "nil") =>
         /\ (c.before.age # NilInt => c.stored.age = c.before.age)
         /\ (c.before.gender # NilStr => c.stored.gender = c.before.gender)
         /\ (c.before.gender_probability # NilInt =>
               c.stored.gender_probability = c.before.gender_probability)
         /\ (c.before.nationality # NilStr =>
               c.stored.nationality = c.before.nationality)
         /\ (c.before.nationality_probability # NilInt =>
               c.stored.nationality_probability = c.before.nationality_probability)

(* C19: in every stored record gender is set if and only if                *)
(* gender_probability is set, and nationality if and only if               *)
(* nationality_probability is set.                                         *)
C19_CompanionProbability ==
  \A id \in DOMAIN persons :
    /\ (persons[id].gender = NilStr) <=> (persons[id].gender_probability = NilInt)
    /\ (persons[id].nationality = NilStr) <=>
         (persons[id].nationality_probability = NilInt)

(* C20: created_at is the time CreatePerson assigned and no Update or      *)
(* Enrich changes it; every successful write of a row, an Enrich that      *)
(* fills nothing included, sets updated_at to the time of the write; so    *)
(* updated_at never decreases and is never earlier than created_at.        *)
C20_Timestamps ==
  /\ [](\A id \in DOMAIN persons :
          /\ persons[id].created_at # ZeroTime
          /\ persons[id].created_at <= persons[id].updated_at
          /\ persons[id].updated_at < now)
  /\ [][\A id \in DOMAIN persons \cap DOMAIN persons' :
          /\ persons'[id].created_at = persons[id].created_at
          /\ persons'[id].updated_at >= persons[id].updated_at
          /\ (persons'[id] # persons[id] => persons'[id].updated_at = now)]_vars
  /\ [][now' # now =>
          \E id \in DOMAIN persons' :
            /\ persons'[id].updated_at = now
            /\ (id \notin DOMAIN persons => persons'[id].created_at = now)]_vars
  /\ [][\A p \in Workers :
          (call[p].pc = "update" /\ call'[p].pc = "done" /\ call'[p].uerr = "nil") =>
             /\ persons'[call[p].id].updated_at = now
             /\ persons'[call[p].id].updated_at > persons[call[p].id].updated_at
             /\ now' > now]_vars

(* a row created at 0, updated by PUT at 1 and enriched at 2 by a call     *)
(* whose lookups all failed                                                *)
C20_Witness ==
  \E p \in Workers :
    /\ Done(call[p]) /\ call[p].uerr = "nil" /\ call[p].writes = 1
    /\ call[p].looked # {} /\ call[p].ok = {}
    /\ call[p].before.updated_at = 1
    /\ call[p].id \in DOMAIN persons
    /\ persons[call[p].id].created_at = 0
    /\ persons[call[p].id].updated_at = 2

----------------------------------------------------------------------------
(* C27: no step of an Enrich call adds a row, so a row deleted during the  *)
(* call does not exist again when the call finishes; when the row is gone  *)
(* at the time of the write, UpdatePerson affects no row and the call      *)
(* returns an error and no record.                                         *)
C27_NoResurrection ==
  /\ [](\A p \in Procs :
          LET c == call[p]
          IN (Done(c) /\ Loaded(c) /\ c.writes = 1 /\ c.before = NoPerson) =>
               /\ c.uerr \in {"ErrPersonNotFound", "db"}
               /\ c.err # "nil"
               /\ c.ret = NoPerson
               /\ c.stored = NoPerson)
  /\ [][\A p \in Procs :
          call'[p] # call[p] => DOMAIN persons' = DOMAIN persons]_vars

(* the row was deleted after three successful lookups; the write found no  *)
(* row and the table is empty                                              *)
C27_Witness ==
  \E p \in Procs :
    /\ Done(call[p]) /\ Loaded(call[p])
    /\ call[p].ok = Fields
    /\ call[p].before = NoPerson
    /\ call[p].uerr = "ErrPersonNotFound"
    /\ persons = <<>>

----------------------------------------------------------------------------
(* The HTTP server: Server.Start and GET /persons.                         *)
(* A query parameter is a sequence of characters, or is missing.           *)

MaxQuery == 25

DefaultLimit == 10
DefaultOffset == 0

DigitChars == <<"0", "1", "2", "3", "4", "5", "6", "7", "8", "9">>

(* the value of a decimal digit, -1 for any other character *)
DigitValue(ch) ==
  IF \E d \in 1..10 : DigitChars[d] = ch
    THEN (CHOOSE d \in 1..10 : DigitChars[d] = ch) - 1
    ELSE -1

(* strconv.Itoa, by which the requests of the model write their numbers *)
RECURSIVE Itoa(_)
Itoa(n) ==
  IF n < 0 THEN <<"-">> \o Itoa(0 - n)
  ELSE IF n < 10 THEN <<DigitChars[n + 1]>>
  ELSE Itoa(n \div 10) \o <<DigitChars[(n % 10) + 1]>>

(* the digits of strconv.Atoi: the value of text[i..], acc the value so    *)
(* far; -1 when a character is not a digit                                 *)
RECURSIVE ParseDigits(_, _, _)
ParseDigits(text, i, acc) ==
  IF i > Len(text) THEN acc
  ELSE IF DigitValue(text[i]) < 0 THEN -1
  ELSE ParseDigits(text, i + 1, acc * 10 + DigitValue(text[i]))

(* Atoi taking the text up to its first non-digit, as C's atoi does *)
Atoi_Prefix(text) ==
  LET signed == Len(text) > 0 /\ text[1] \in {"+", "-"}
      first == IF signed THEN 2 ELSE 1
      stop == IF \E i \in first..Len(text) : DigitValue(text[i]) < 0
                THEN (CHOOSE i \in first..Len(text) :
                        /\ DigitValue(text[i]) < 0
                        /\ \A j \in first..(i - 1) : DigitValue(text[j]) >= 0) - 1
                ELSE Len(text)
      digits == SubSeq(text, first, stop)
      v == ParseDigits(digits, 1, 0)
  IN IF Len(digits) = 0 THEN [n |-> 0, err |-> "ErrSyntax"]
     ELSE [n |-> IF signed /\ text[1] = "-" THEN 0 - v ELSE v, err |-> "nil"]

(* strconv.Atoi: an optional sign and at least one decimal digit, nothing  *)
(* else.  The texts of the model are too short to leave the range of int.  *)
Atoi(text) ==
  LET signed == Len(text) > 0 /\ text[1] \in {"+", "-"}
      digits == IF signed THEN SubSeq(text, 2, Len(text)) ELSE text
      v == ParseDigits(digits, 1, 0)
  IN IF Len(digits) = 0 \/ v < 0 THEN [n |-> 0, err |-> "ErrSyntax"]
     ELSE [n |-> IF text[1] = "-" THEN 0 - v ELSE v, err |-> "nil"]

(* fiber's ctx.Query(key, defaultValue): the default for a parameter that  *)
(* is missing or empty                                                     *)
Query(param, defaultValue) ==
  IF ~param.present \/ param.text = <<>> THEN defaultValue ELSE param.text

(* `if err != nil || limit <= 0 { limit = 10 }` *)
ParseLimit(param) ==
  LET r == Atoi(Query(param, Itoa(DefaultLimit)))
  IN IF r.err # "nil" \/ r.n <= 0 THEN DefaultLimit ELSE r.n

(* `if err != nil || offset < 0 { offset = 0 }` *)
ParseOffset(param) ==
  LET r == Atoi(Query(param, Itoa(DefaultOffset)))
  IN IF r.err # "nil" \/ r.n < 0 THEN DefaultOffset ELSE r.n

(* The texts of the requests: numbers as Itoa writes them, other spellings *)
(* of 7, and texts that are no integer.                                    *)
QueryNumbers == {-1, 0, 1, DefaultLimit, MaxQuery}

OtherSpellings == { <<<<"+", "7">>, 7>>, <<<<"0", "0", "7">>, 7>> }

NotIntegers == { <<"1", ".", "5">>, <<"5", "x">>, <<"-">>, <<" ", "5">> }

QueryParams ==
  { [present |-> FALSE, text |-> <<>>], [present |-> TRUE, text |-> <<>>] }
  \cup { [present |-> TRUE, text |-> Itoa(n)] : n \in QueryNumbers }
  \cup { [present |-> TRUE, text |-> t[1]] : t \in OtherSpellings }
  \cup { [present |-> TRUE, text |-> t] : t \in NotIntegers }

(* PersonHandler.GetPersons: the limit and offset the repository is asked  *)
(* with and the response.                                                  *)
GetPersons(limitParam, offsetParam, dbfail) ==
  /\ LET limit == ParseLimit(limitParam)
         offset == ParseOffset(offsetParam)
     IN reply' = [op |-> "list", limitParam |-> limitParam,
                  offsetParam |-> offsetParam,
                  asked |-> [offset |-> offset, limit |-> limit],
                  status |-> IF dbfail THEN 500 ELSE 200,
                  echoed |-> IF dbfail THEN [offset |-> NilInt, limit |-> NilInt]
                             ELSE [offset |-> offset, limit |-> limit]]
  /\ UNCHANGED <<persons, now, call, ncalls, fullAt, probe, req, server>>

(* The error Start returns being the error of Listen *)
StartResult_ListenError(listener) ==
  IF listener = "failed" THEN "failed to start HTTP server" ELSE "nil"

(* `<-ctx.Done(); return nil` *)
StartResult(listener) == "nil"

(* Server.Start up to `<-ctx.Done()`: the goroutine that calls Listen is   *)
(* launched.                                                               *)
StartCall ==
  /\ server.pc = "new"
  /\ server' = [server EXCEPT !.pc = "waiting", !.listener = "starting"]
  /\ UNCHANGED <<persons, now, call, ncalls, fullAt, probe, req, reply>>

(* app.Listen binds the address and serves. *)
ListenBound ==
  /\ server.listener = "starting"
  /\ server' = [server EXCEPT !.listener = "listening"]
  /\ UNCHANGED <<persons, now, call, ncalls, fullAt, probe, req, reply>>

(* app.Listen returns an error, which the goroutine logs. *)
ListenFailed ==
  /\ server.listener = "starting"
  /\ server' = [server EXCEPT !.listener = "failed"]
  /\ UNCHANGED <<persons, now, call, ncalls, fullAt, probe, req, reply>>

(* The caller cancels the context given to Start. *)
CancelStart ==
  /\ server.ctx = "live"
  /\ server' = [server EXCEPT !.ctx = "cancelled"]
  /\ UNCHANGED <<persons, now, call, ncalls, fullAt, probe, req, reply>>

(* `<-ctx.Done()` is passed and Start returns. *)
StartReturn ==
  /\ server.pc = "waiting"
  /\ server.ctx = "cancelled"
  /\ server' = [server EXCEPT !.pc = "returned", !.ret = StartResult(server.listener)]
  /\ UNCHANGED <<persons, now, call, ncalls, fullAt, probe, req, reply>>

(* Server.Stop: ShutdownWithContext ends Listen. *)
Stop ==
  /\ server.listener = "listening"
  /\ server' = [server EXCEPT !.listener = "stopped"]
  /\ UNCHANGED <<persons, now, call, ncalls, fullAt, probe, req, reply>>

ServerNext ==
  \/ StartCall
  \/ ListenBound
  \/ ListenFailed
  \/ CancelStart
  \/ StartReturn
  \/ Stop
  \/ \E limitParam \in QueryParams, offsetParam \in QueryParams, dbfail \in BOOLEAN :
       /\ server.listener = "listening"
       /\ GetPersons(limitParam, offsetParam, dbfail)

(* The goroutine blocked in `<-ctx.Done()` runs once the context is done. *)
ServerSpec == Init /\ [][ServerNext]_vars /\ WF_vars(StartReturn)

(* the integer a text of the requests stands for, NilInt if none *)
Meaning(param) ==
  IF ~param.present \/ param.text = <<>> THEN NilInt - 1
  ELSE IF \E n \in QueryNumbers : Itoa(n) = param.text
    THEN CHOOSE n \in QueryNumbers : Itoa(n) = param.text
  ELSE IF \E t \in OtherSpellings : t[1] = param.text
    THEN (CHOOSE t \in OtherSpellings : t[1] = param.text)[2]
  ELSE NilInt - 1

(* C25: GET /persons asks the store with the supplied limit when it is an  *)
(* integer > 0 and with 10 otherwise, and with the supplied offset when it *)
(* is an integer >= 0 and with 0 otherwise; a 200 response echoes the      *)
(* limit and offset that were used.                                        *)
C25_Pagination ==
  reply.op = "list" =>
    LET l == Meaning(reply.limitParam)
        o == Meaning(reply.offsetParam)
    IN /\ reply.asked.limit = IF l > 0 THEN l ELSE 10
       /\ reply.asked.offset = IF o >= 0 THEN o ELSE 0
       /\ (reply.status = 200 => reply.echoed = reply.asked)

(* limit=+7 with offset=-1: 7 and 0 are asked for and echoed *)
C25_Witness ==
  /\ reply.op = "list" /\ reply.status = 200
  /\ reply.limitParam.text = <<"+", "7">>
  /\ reply.offsetParam.text = <<"-", "1">>
  /\ reply.echoed = [offset |-> 0, limit |-> 7]

(* C26: Start has launched the listener when it waits, returns only after  *)
(* its context is cancelled, returns nil whatever became of the listener   *)
(* (a failed bind included), and once its context is cancelled it does     *)
(* return.                                                                 *)
C26_StartLifecycle ==
  /\ [](/\ (server.pc = "waiting" => server.listener # "none")
        /\ (server.pc = "returned" =>
              /\ server.ctx = "cancelled"
              /\ server.listener # "none"
              /\ server.ret = "nil"))
  /\ ((server.pc = "waiting" /\ server.ctx = "cancelled") ~> (server.pc = "returned"))

(* Start has returned nil although Listen failed *)
C26_Witness ==
  /\ server.pc = "returned"
  /\ server.listener = "failed"
  /\ server.ret = "nil"

----------------------------------------------------------------------------
(* The handlers of POST /persons, PUT and PATCH /persons/:id, DELETE       *)
(* /persons/:id and POST /persons/:id/enrich on a table of two rows.       *)
(* reply is the response of the last Create, Update or Delete with what    *)
(* the handler did for it.  An Update is two steps, ExistsByID and the     *)
(* rest, and other requests are served between the two.                    *)

Methods == {"PUT", "PATCH"}

OptionalFields ==
  {"patronymic", "age", "gender", "gender_probability", "nationality",
   "nationality_probability"}

(* Bodies of POST /persons: without an id and with an age, with the id 2,  *)
(* without a name, without a surname.                                      *)
CreateBodies ==
  { NewPerson(NilID, "Maria", "Diaz", NilStr, 25, NilStr, NilInt, NilStr, NilInt),
    NewPerson(2, "Maria", "Diaz", "Luz", NilInt, NilStr, NilInt, NilStr, NilInt),
    NewPerson(NilID, "", "Diaz", NilStr, NilInt, NilStr, NilInt, NilStr, NilInt),
    NewPerson(NilID, "Maria", "", NilStr, NilInt, NilStr, NilInt, NilStr, NilInt) }

(* Bodies of PUT and PATCH: a body that names only name and surname, one   *)
(* with the id of another row, one without a surname.                      *)
PutBodies ==
  { NewPerson(NilID, "Ana", "Diaz", NilStr, NilInt, NilStr, NilInt, NilStr, NilInt),
    NewPerson(2, "Ana", "Diaz", NilStr, NilInt, NilStr, NilInt, NilStr, NilInt),
    NewPerson(NilID, "Ana", "", NilStr, NilInt, NilStr, NilInt, NilStr, NilInt) }

(* The answers of the lookup services to the Enrich calls. *)
CrudAgeExchanges == { [kind |-> "status", body |-> <<>>] }

CrudGenderExchanges == { HttpOk([gender |-> "female", probability |-> 98000]) }

CrudNationalityExchanges == { HttpOk(<<[country_id |-> "IT", probability |-> 70000]>>) }

(* the row of an id, NoPerson when there is none *)
Row(rows, personID) == IF personID \in DOMAIN rows THEN rows[personID] ELSE NoPerson

(* Create and Update requiring the name alone *)
Valid_NameOnly(person) == person.name # ""

(* `if person.Name == "" || person.Surname == ""` is not taken *)
Valid(person) == person.name # "" /\ person.surname # ""

(* PersonHandler.CreatePerson with its response. *)
CreatePersonRequest(body, fresh, dbfail) ==
  /\ now < MaxTime
  /\ LET person == IF body.id = NilID THEN [body EXCEPT !.id = fresh] ELSE body
         r == IF Valid(body)
                THEN RepoCreatePerson(persons, person, fresh, now, dbfail)
                ELSE [person |-> body, err |-> "ErrNameSurnameRequired", rows |-> persons]
     IN /\ persons' = r.rows
        /\ now' = IF r.err = "nil" THEN now + 1 ELSE now
        /\ reply' = [op |-> "create", body |-> body, called |-> Valid(body),
                     status |-> IF ~Valid(body) THEN 400
                                ELSE IF r.err = "nil" THEN 201 ELSE 500,
                     person |-> r.person, had |-> DOMAIN persons]
  /\ UNCHANGED <<call, ncalls, fullAt, probe, req, server>>

(* What an Update is answered with before its body is read. *)
UpdateRefused(method, personID, body, status, err) ==
  [op |-> "update", method |-> method, id |-> personID, body |-> body,
   status |-> status, err |-> err, checked |-> FALSE, called |-> FALSE,
   before |-> Row(persons, personID), after |-> Row(persons, personID)]

(* PersonHandler.UpdatePerson up to and including ExistsByID: 500 when the *)
(* check fails, 404 when the row does not exist.                           *)
UpdatePersonExists(method, personID, body, existsFail) ==
  /\ req = NoRequest
  /\ LET e == ExistsByID(persons, personID, existsFail)
     IN IF e.err # "nil"
          THEN /\ reply' = UpdateRefused(method, personID, body, 500, e.err)
               /\ req' = req
          ELSE IF ~e.exists
            THEN /\ reply' = UpdateRefused(method, personID, body, 404, "ErrPersonNotFound")
                 /\ req' = req
            ELSE /\ req' = [pc |-> "write", method |-> method, id |-> personID,
                            body |-> body]
                 /\ reply' = reply
  /\ UNCHANGED <<persons, now, call, ncalls, fullAt, probe, server>>

(* UpdatePerson leaving the id of the body when the body has one *)
BindUpdate_KeepsBodyID(personID, body) ==
  IF body.id # NilID THEN body ELSE [body EXCEPT !.id = personID]

(* `ctx.Bind().Body(&person); person.ID = personID` *)
BindUpdate(personID, body) == [body EXCEPT !.id = personID]

(* `if err := ...UpdatePerson(requestCtx, &person); err != nil { 500 }` *)
UpdateStatus(err) == IF err = "nil" THEN 200 ELSE 500

(* PersonHandler.UpdatePerson from the binding of the body on. *)
UpdatePersonWrite(dbfail) ==
  /\ req # NoRequest
  /\ now < MaxTime
  /\ LET person == BindUpdate(req.id, req.body)
         u == IF Valid(person)
                THEN RepoUpdatePerson(persons, person, now, dbfail)
                ELSE [person |-> person, err |-> "ErrNameSurnameRequired",
                      rows |-> persons]
     IN /\ persons' = u.rows
        /\ now' = IF u.err = "nil" THEN now + 1 ELSE now
        /\ reply' = [op |-> "update", method |-> req.method, id |-> req.id,
                     body |-> req.body,
                     status |-> IF ~Valid(person) THEN 400 ELSE UpdateStatus(u.err),
                     err |-> u.err,
                     checked |-> TRUE, called |-> Valid(person),
                     before |-> Row(persons, req.id), after |-> Row(u.rows, req.id)]
  /\ req' = NoRequest
  /\ UNCHANGED <<call, ncalls, fullAt, probe, server>>

(* PersonHandler.DeletePerson with its response. *)
DeletePersonRequest(personID, dbfail) ==
  /\ LET r == RepoDeletePerson(persons, personID, dbfail)
     IN /\ persons' = r.rows
        /\ reply' = [op |-> "delete", id |-> personID,
                     status |-> IF r.err = "nil" THEN 204
                                ELSE IF SaysNotFound(r.err) THEN 404 ELSE 500]
  /\ UNCHANGED <<now, call, ncalls, fullAt, probe, req, server>>

CrudNext ==
  \/ \E body \in CreateBodies, fresh \in NewUUIDs \ DOMAIN persons, dbfail \in BOOLEAN :
       CreatePersonRequest(body, fresh, dbfail)
  \/ \E method \in Methods, personID \in IDs, body \in PutBodies, existsFail \in BOOLEAN :
       UpdatePersonExists(method, personID, body, existsFail)
  \/ \E dbfail \in BOOLEAN : UpdatePersonWrite(dbfail)
  \/ \E personID \in IDs, dbfail \in BOOLEAN : DeletePersonRequest(personID, dbfail)
  \/ \E p \in Procs, impl \in Impls, id \in IDs, failure \in {"nil"} \cup StoreFailures :
       EnrichLoadFrom(p, impl, id, GetByIDFailing(persons, id, failure))
  \/ \E p \in Procs : EnrichAgeOn(p, CrudAgeExchanges)
  \/ \E p \in Procs : EnrichGenderOn(p, CrudGenderExchanges)
  \/ \E p \in Procs : EnrichNationalityOn(p, CrudNationalityExchanges)
  \/ \E p \in Procs, dbfail \in BOOLEAN : EnrichUpdate(p, dbfail)
  \/ \E p \in Procs : EnrichReturn(p)

CrudSpec == Init /\ [][CrudNext]_vars

(* the absent value of an optional field *)
NilOf(field) ==
  IF field \in {"age", "gender_probability", "nationality_probability"}
    THEN NilInt ELSE NilStr

(* C21: a created record has a non-nil identifier, the supplied one when   *)
(* the body has one and otherwise one no row had; every row is stored      *)
(* under its own identifier; and the write of an Update addressed to X     *)
(* leaves every row but X as it was, whatever id the body carries.         *)
C21_Identifier ==
  /\ [](/\ \A i \in DOMAIN persons : i # NilID /\ persons[i].id = i
        /\ (reply.op = "create" /\ reply.status = 201 =>
              /\ reply.person.id # NilID
              /\ (reply.body.id # NilID => reply.person.id = reply.body.id)
              /\ (reply.body.id = NilID => reply.person.id \notin reply.had))
        /\ (reply.op = "update" /\ reply.status = 200 => reply.after.id = reply.id))
  /\ [][(req # NoRequest /\ req' = NoRequest) =>
          /\ DOMAIN persons' = DOMAIN persons
          /\ \A i \in DOMAIN persons \ {req.id} : persons'[i] = persons[i]]_vars

(* PUT /persons/1 with the id 2 in its body has written row 1 and row 2 is *)
(* as it was created                                                       *)
C21_Witness ==
  /\ reply.op = "update" /\ reply.status = 200
  /\ reply.id = 1 /\ reply.body.id = 2
  /\ reply.after.name = "Ana"
  /\ 2 \in DOMAIN persons /\ persons[2].name = "Maria"

C23_PatchIsPartial ==
  (reply.op = "update" /\ reply.method = "PATCH" /\ reply.status = 200) =>
    \A f \in OptionalFields :
      reply.body[f] = NilOf(f) => reply.after[f] = reply.before[f]

(* C24 as stated: every Create or Update whose name or surname is empty is *)
(* answered 400 without a call of the repository, and every row has a name *)
(* and a surname.                                                          *)
C24_AlwaysBadRequest ==
  /\ \A i \in DOMAIN persons : persons[i].name # "" /\ persons[i].surname # ""
  /\ (reply.op \in {"create", "update"}
        /\ (reply.body.name = "" \/ reply.body.surname = "") =>
          reply.status = 400 /\ ~reply.called)

(* C24: a Create or Update whose name or surname is empty never reaches    *)
(* the repository's CreatePerson / UpdatePerson; it is answered 400,       *)
(* except that an Update is answered 404 or 500 when ExistsByID did not    *)
(* find the row or failed; and every row has a name and a surname.         *)
C24_RequiredNames ==
  /\ \A i \in DOMAIN persons : persons[i].name # "" /\ persons[i].surname # ""
  /\ (reply.op \in {"create", "update"}
        /\ (reply.body.name = "" \/ reply.body.surname = "") =>
          /\ ~reply.called
          /\ IF reply.op = "update" /\ ~reply.checked
               THEN reply.status \in {404, 500}
               ELSE reply.status = 400)

(* an Update without a surname, on a row that exists, is answered 400 and  *)
(* the row is as it was                                                    *)
C24_Witness ==
  /\ reply.op = "update" /\ reply.checked /\ reply.status = 400
  /\ reply.body.surname = ""
  /\ reply.before # NoPerson /\ reply.after = reply.before

(* C28: an Update whose row is absent when it is answered, and which did   *)
(* not fail for another reason, is answered 404 and writes nothing.        *)
C28_MissingIs404 ==
  (reply.op = "update" /\ reply.before = NoPerson
     /\ reply.err \in {"nil", "ErrPersonNotFound"}) =>
    reply.status = 404 /\ reply.after = NoPerson

(* C30: an Enrich call loads the row of its id, invokes every lookup with  *)
(* the name of that row, passes to UpdatePerson a record with the id,      *)
(* name, surname and patronymic of that row, and its steps leave every     *)
(* other row as it was.                                                    *)
C30_EnrichFrame ==
  /\ [](\A p \in DOMAIN call :
          LET c == call[p]
          IN /\ (c.pc # "idle" /\ c.lerr = "nil" =>
                   /\ c.loaded.id = c.id
                   /\ c.keys \subseteq {c.loaded.name})
             /\ (c.writes = 1 =>
                   /\ c.arg.id = c.loaded.id
                   /\ c.arg.name = c.loaded.name
                   /\ c.arg.surname = c.loaded.surname
                   /\ c.arg.patronymic = c.loaded.patronymic))
  /\ [][\A p \in DOMAIN call :
          call'[p] # call[p] =>
            /\ DOMAIN persons' = DOMAIN persons
            /\ \A i \in DOMAIN persons \ {call[p].id} : persons'[i] = persons[i]]_vars

(* an Enrich of row 2 has looked up by "Maria" and written row 2 with its  *)
(* patronymic while row 1 exists                                           *)
C30_Witness ==
  \E p \in DOMAIN call :
    /\ call[p].pc = "done" /\ call[p].writes = 1 /\ call[p].uerr = "nil"
    /\ call[p].id = 2 /\ call[p].keys = {"Maria"}
    /\ call[p].arg.patronymic = "Luz"
    /\ call[p].stored.gender = "female"
    /\ 1 \in DOMAIN persons

----------------------------------------------------------------------------
(* The two implementations of EnrichPerson side by side: each is run on    *)
(* the same table, id and answers of the store and of the lookup services, *)
(* and probe keeps what each did.                                          *)

(* a call made by EnrichPerson with its arguments *)
EnrichCall(fn, id, name, person) ==
  [fn |-> fn, id |-> id, name |-> name, person |-> person]

(* personServiceImpl.EnrichPerson: the calls it makes in order, the record *)
(* it passes to UpdatePerson and whether it returns a record.              *)
ServiceEnrichPerson(rows, id, failure, ageResp, genderResp, natResp, t, dbfail) ==
  LET found == GetByIDFailing(rows, id, failure)
      loaded == <<EnrichCall("GetByID", id, "", NoPerson)>>
      p0 == found.person
      a == GetAgeByName(p0.name, ageResp)
      p1 == IF p0.age = NilInt /\ a.err = "nil" THEN [p0 EXCEPT !.age = a.age] ELSE p0
      c1 == IF p0.age = NilInt
              THEN Append(loaded, EnrichCall("GetAgeByName", NilID, p0.name, NoPerson))
              ELSE loaded
      g == GetGenderByName(p1.name, genderResp)
      p2 == IF p1.gender = NilStr /\ g.err = "nil"
              THEN [p1 EXCEPT !.gender = g.gender, !.gender_probability = g.probability]
              ELSE p1
      c2 == IF p1.gender = NilStr
              THEN Append(c1, EnrichCall("GetGenderByName", NilID, p1.name, NoPerson))
              ELSE c1
      n == GetNationalityByName(p2.name, natResp)
      p3 == IF p2.nationality = NilStr /\ n.err = "nil"
              THEN [p2 EXCEPT !.nationality = n.nationality,
                              !.nationality_probability = n.probability]
              ELSE p2
      c3 == IF p2.nationality = NilStr
              THEN Append(c2, EnrichCall("GetNationalityByName", NilID, p2.name, NoPerson))
              ELSE c2
      u == RepoUpdatePerson(rows, p3, t, dbfail)
  IN IF found.err # "nil"
       THEN [calls |-> loaded, arg |-> NoPerson, ok |-> FALSE, rows |-> rows]
       ELSE [calls |-> Append(c3, EnrichCall("UpdatePerson", p3.id, "", p3)),
             arg |-> p3, ok |-> (u.err = "nil"), rows |-> u.rows]

(* The handler looking the nationality up only when the row has no gender *)
HandlerEnrichPerson_NestedNationality(rows, id, failure, ageResp, genderResp, natResp, t, dbfail) ==
  LET found == GetByIDFailing(rows, id, failure)
      person == found.person
      age == GetAgeByName(person.name, ageResp)
      gender == GetGenderByName(person.name, genderResp)
      nat == GetNationalityByName(person.name, natResp)
      askNat == person.gender = NilStr /\ person.nationality = NilStr
      enriched ==
        [person EXCEPT
           !.age = IF @ = NilInt /\ age.err = "nil" THEN age.age ELSE @,
           !.gender = IF @ = NilStr /\ gender.err = "nil" THEN gender.gender ELSE @,
           !.gender_probability =
              IF person.gender = NilStr /\ gender.err = "nil"
                THEN gender.probability ELSE @,
           !.nationality = IF askNat /\ nat.err = "nil" THEN nat.nationality ELSE @,
           !.nationality_probability =
              IF askNat /\ nat.err = "nil" THEN nat.probability ELSE @]
      lookups ==
        (IF person.age = NilInt
           THEN <<EnrichCall("GetAgeByName", NilID, person.name, NoPerson)>> ELSE <<>>)
        \o (IF person.gender = NilStr
              THEN <<EnrichCall("GetGenderByName", NilID, person.name, NoPerson)>>
              ELSE <<>>)
        \o (IF askNat
              THEN <<EnrichCall("GetNationalityByName", NilID, person.name, NoPerson)>>
              ELSE <<>>)
      saved == RepoUpdatePerson(rows, enriched, t, dbfail)
  IN IF found.err # "nil"
       THEN [calls |-> <<EnrichCall("GetByID", id, "", NoPerson)>>, arg |-> NoPerson,
             ok |-> FALSE, rows |-> rows]
       ELSE [calls |-> <<EnrichCall("GetByID", id, "", NoPerson)>> \o lookups
                        \o <<EnrichCall("UpdatePerson", enriched.id, "", enriched)>>,
             arg |-> enriched, ok |-> (saved.err = "nil"), rows |-> saved.rows]

(* PersonHandler.EnrichPerson: the calls it makes in order, the record it  *)
(* passes to UpdatePerson and whether it answers 200 with a record.  The   *)
(* three blocks read only the field they guard and person.Name, which no   *)
(* block assigns.                                                          *)
HandlerEnrichPerson(rows, id, failure, ageResp, genderResp, natResp, t, dbfail) ==
  LET found == GetByIDFailing(rows, id, failure)
      person == found.person
      age == GetAgeByName(person.name, ageResp)
      gender == GetGenderByName(person.name, genderResp)
      nat == GetNationalityByName(person.name, natResp)
      enriched ==
        [person EXCEPT
           !.age = IF @ = NilInt /\ age.err = "nil" THEN age.age ELSE @,
           !.gender = IF @ = NilStr /\ gender.err = "nil" THEN gender.gender ELSE @,
           !.gender_probability =
              IF person.gender = NilStr /\ gender.err = "nil"
                THEN gender.probability ELSE @,
           !.nationality =
              IF @ = NilStr /\ nat.err = "nil" THEN nat.nationality ELSE @,
           !.nationality_probability =
              IF person.nationality = NilStr /\ nat.err = "nil"
                THEN nat.probability ELSE @]
      lookups ==
        (IF person.age = NilInt
           THEN <<EnrichCall("GetAgeByName", NilID, person.name, NoPerson)>> ELSE <<>>)
        \o (IF person.gender = NilStr
              THEN <<EnrichCall("GetGenderByName", NilID, person.name, NoPerson)>>
              ELSE <<>>)
        \o (IF person.nationality = NilStr
              THEN <<EnrichCall("GetNationalityByName", NilID, person.name, NoPerson)>>
              ELSE <<>>)
      saved == RepoUpdatePerson(rows, enriched, t, dbfail)
  IN IF found.err # "nil"
       THEN [calls |-> <<EnrichCall("GetByID", id, "", NoPerson)>>, arg |-> NoPerson,
             ok |-> FALSE, rows |-> rows]
       ELSE [calls |-> <<EnrichCall("GetByID", id, "", NoPerson)>> \o lookups
                        \o <<EnrichCall("UpdatePerson", enriched.id, "", enriched)>>,
             arg |-> enriched, ok |-> (saved.err = "nil"), rows |-> saved.rows]

(* The tables the comparison starts from: empty, or the row 1 as           *)
(* CreatePerson stores a body.                                             *)
EnrichStores ==
  { <<>> } \cup { RepoCreatePerson(<<>>, body, 1, 0, FALSE).rows : body \in Bodies }

(* Both implementations run on one input. *)
CompareEnrichPerson(rows, id, failure, ageResp, genderResp, natResp, dbfail) ==
  /\ probe = NoProbe
  /\ probe' = [fn |-> "EnrichPerson", rows |-> rows, id |-> id,
               service |-> ServiceEnrichPerson(rows, id, failure, ageResp,
                                               genderResp, natResp, 1, dbfail),
               handler |-> HandlerEnrichPerson(rows, id, failure, ageResp,
                                               genderResp, natResp, 1, dbfail)]
  /\ UNCHANGED <<persons, now, call, ncalls, fullAt, req, reply, server>>

EnrichNext ==
  \E rows \in EnrichStores, id \in IDs, failure \in {"nil"} \cup StoreFailures,
     ageResp \in AgeExchanges, genderResp \in GenderExchanges,
     natResp \in NationalityExchanges, dbfail \in BOOLEAN :
    CompareEnrichPerson(rows, id, failure, ageResp, genderResp, natResp, dbfail)

EnrichSpec == Init /\ [][EnrichNext]_vars

(* C29: on every table, id, store outcome and lookup outcome the handler's *)
(* and the service's EnrichPerson make the same calls with the same        *)
(* arguments in the same order, pass the same record to UpdatePerson,      *)
(* leave the same table and succeed or fail together.                      *)
C29_ImplementationsAgree ==
  probe.fn = "EnrichPerson" =>
    /\ probe.handler.calls = probe.service.calls
    /\ probe.handler.arg = probe.service.arg
    /\ probe.handler.ok = probe.service.ok
    /\ probe.handler.rows = probe.service.rows

(* both have looked up the age and the nationality of a row that had a     *)
(* gender, and have stored the result                                      *)
C29_Witness ==
  /\ probe.fn = "EnrichPerson"
  /\ probe.service.ok /\ probe.handler.ok
  /\ Len(probe.service.calls) = 4 /\ Len(probe.handler.calls) = 4
  /\ probe.rows[1].gender = "male"
  /\ probe.handler.arg.nationality = "IT"
  /\ probe.handler.arg.age = 28

====
